---- MODULE Spec2Model ----
(***************************************************************************)
(* ContextGraph integrations: the CrewAI observer, the LangChain callback  *)
(* handler and the LangChain v1 middleware, as one state machine.          *)
(*                                                                         *)
(* One behaviour is the life of one instance (the adapter and its          *)
(* configuration are chosen in Init).  The host fires hooks from several   *)
(* threads.  A hook is a sequence of steps; a step ends where the thread   *)
(* can be descheduled with shared state exposed: at a blocking HTTP call,  *)
(* after an atomic dict operation, between two reads of an attribute.      *)
(*                                                                         *)
(* The remote store is the environment: every request it receives gets a   *)
(* nondeterministic outcome, and the ids it assigns are fresh.             *)
(***************************************************************************)
EXTENDS Integers, Sequences, FiniteSets, TLC

\* ----------------------------------------------------------------- bounds
NumThreads == 2
NumIdents == 2
MaxDecisions == 2

Threads == 1..NumThreads
\* identities the host supplies: id(task), id(agent), run_id
Idents == 1..NumIdents
\* ids the remote store assigns (truthy), in the order it assigns them
Ids == 1..MaxDecisions
\* Python's None, where a decision id is expected
None == 0

Adapters == {"crewai", "langchain", "langchain-v1"}

\* ------------------------------------------------------ correlation keys
\* A key is the string the code builds, kept as its parts <<prefix, role, identity>>.
NoKey == <<"", "", 0>>

\* getattr(agent, "role", "unknown_agent"): agent 1 has a role, the others have none
AgentRole(agent) == IF agent = 1 THEN "researcher" ELSE "unknown_agent"

\* str(id(task))
TaskKey(task) == <<"", "", task>>

\* f"action_{agent_name}_{id(agent)}"
ActionKey(agent) == <<"action_", AgentRole(agent), agent>>

\* str(run_id)
RunKey(run_id) == <<"", "", run_id>>

\* the literal "model"
ModelKey == <<"model", "", 0>>

Keys == {TaskKey(i) : i \in Idents} \cup {ActionKey(i) : i \in Idents}
          \cup {RunKey(i) : i \in Idents} \cup {ModelKey}

\* ------------------------------------------------------- host-supplied values
\* What a host value is, as far as the code's type tests can tell.
ValueKinds == {"none", "str", "int", "dict", "list", "tuple", "model", "object",
               "other", "cyclic"}

\* _serialize: the kind of its result, "raise" when the recursion does not end
\* (a self-referential mapping, sequence or attribute bag: RecursionError).
SerializeKind(v) ==
  CASE v = "none" -> "none"
    [] v \in {"str", "int"} -> v
    [] v = "dict" -> "dict"
    [] v \in {"list", "tuple"} -> "list"
    [] v = "model" -> "dict"
    [] v = "object" -> "dict"
    [] v = "cyclic" -> "raise"
    [] OTHER -> "str"

\* the exception evaluating _serialize(v) raises in the caller, "none" if it returns
SerializeError(v) == IF SerializeKind(v) = "raise" THEN "RecursionError" ELSE "none"

\* what evaluating _serialize on a host value can raise
SerializeErrors == {SerializeError(v) : v \in ValueKinds}

\* x[:n] is defined on strings and lists only
SliceError(kind) == IF kind \in {"str", "list"} THEN "none" ELSE "TypeError"

\* the first exception of a left-to-right evaluation
FirstError(errors) ==
  IF \E i \in 1..Len(errors) : errors[i] # "none"
  THEN errors[CHOOSE i \in 1..Len(errors) :
                  /\ errors[i] # "none"
                  /\ \A j \in 1..(i - 1) : errors[j] = "none"]
  ELSE "none"

\* ------------------------------------------------------------ remote outcomes
\* POST /v1/decisions: "ok" is 2xx with an id, "no_id" is 2xx whose JSON has no
\* (or a null) id; the others are the exception the try body raises:
\* TypeError: the payload is not JSON-serializable (no request leaves);
\* ConnectError, TimeoutException: the transport; HTTPStatusError: raise_for_status
\* on a non-2xx; JSONDecodeError: response.json() on an unparsable body;
\* AttributeError: decision.get on a body that is JSON but no mapping.
CreateFailures == {"TypeError", "ConnectError", "TimeoutException", "HTTPStatusError",
                   "JSONDecodeError", "AttributeError"}
CreateOutcomes == {"ok", "no_id"} \cup CreateFailures

\* POST /v1/decisions/{id}/transition
TransitionFailures == {"TypeError", "ConnectError", "TimeoutException", "HTTPStatusError"}
TransitionOutcomes == {"ok"} \cup TransitionFailures

\* ------------------------------------------------------------------ state
VARIABLES
  adapter,            \* which of the three integrations this instance is
  auto_approve,       \* self.auto_approve
  log_tool_calls,     \* observer: self.log_tool_calls; middleware: log_tool_calls
  log_agent_thoughts, \* observer: self.log_agent_thoughts
  log_chain_calls,    \* callback: self.log_chain_calls
  log_llm_calls,      \* callback: self.log_llm_calls
  log_model_calls,    \* middleware: log_model_calls
  active_decisions,   \* _active_decisions / _run_decisions / active_decisions
  crew_decision_id,   \* observer: self._crew_decision_id
  sent,               \* per decision id, the statuses of the calls made for it, in order
  approval_failed,    \* the ids whose approval call failed
  frame,              \* per thread, where it is in a hook and the hook's locals
  last_hook,          \* history: how a hook has just ended (until the next begins)
  constructed,        \* "no" before construction, then "yes" or the exception raised
  api_key,            \* self.api_key
  agent_id,           \* self.agent_id / self.crew_id
  obj,                \* the value a direct call of _serialize is given
  returned,           \* per copy of _serialize, what the direct call returned or raised
  metadata,           \* self.metadata
  log_args,           \* the context and the reference a call of _log_decision is given
  logged,             \* the creation request that call built: agent_id, status, context
  request_history     \* history: which terminal requests failed, or which thread's
                      \* creation request was last answered without an id

config == <<adapter, auto_approve, log_tool_calls, log_agent_thoughts,
            log_chain_calls, log_llm_calls, log_model_calls,
            constructed, api_key, agent_id>>
\* the state of the direct calls of the pure functions
direct == <<obj, returned, metadata, log_args, logged>>
vars == <<config, direct, active_decisions, crew_decision_id, sent, approval_failed, frame,
          last_hook, request_history>>

\* no exception
NoExc == "none"

\* A frame: pc is where the thread is, key / decision_id / status are the hook's
\* locals that its remaining steps read, exc is where the exception was raised that
\* the hook propagates to the host: "hook" (the hook's own code), "_log_decision",
\* "_transition_decision" or "tool" (the host's tool).  A hook ends in a frame
\* whose pc is "idle" (it returned) or "raised" (it propagated exc).
Frame(pc, k, d, st, e) == [pc |-> pc, key |-> k, decision_id |-> d, status |-> st, exc |-> e]

\* a thread outside any hook; also the last frame of a hook that returned
IdleFrame == Frame("idle", NoKey, None, "none", NoExc)

\* the last frame of a start hook on key k whose propose returned the absent
\* value, so that it stored nothing
AbsentFrame(k) == Frame("idle", k, None, "absent", NoExc)

\* the last frame of a hook that propagated an exception raised at e to the host
\* while it held the decision id d it had taken (None if it held none)
RaisedFrame(d, e) == Frame("raised", NoKey, d, "none", e)

\* the host may fire a hook on a thread that is in none
Outside(t) == frame[t] = IdleFrame

\* whether frame f is the last of its hook
Ended(f) == f.pc \in {"idle", "raised"}

\* how a hook of thread t that ended in frame f ended (the thread is kept for a
\* start hook that got absent, for the end hook that follows it on that thread)
HookEnd(t, f) == [thread |-> IF f.status = "absent" THEN t ELSE 0, frame |-> f]

\* the value of last_hook when no history is kept
NoHistory == HookEnd(0, Frame("untraced", NoKey, None, "none", NoExc))

\* thread t goes on to frame f; if f ends the hook the thread is outside again.
\* The history is how the hook ended, if it ends here, and is forgotten when a
\* hook begins that does not end in its first step.
Goto(t, f) ==
  /\ frame' = [frame EXCEPT ![t] = IF Ended(f) THEN IdleFrame ELSE f]
  /\ last_hook' =
       CASE last_hook = NoHistory -> last_hook
         [] Ended(f) -> HookEnd(t, f)
         [] Outside(t) -> HookEnd(0, IdleFrame)
         [] OTHER -> last_hook

\* request_history when no history of the requests' outcomes is kept ("none"),
\* at the start of a history of the terminal requests that failed ("writes"), and
\* at the start of a history of the creation requests answered without an id
\* ("answers"): failed is the ids whose terminal request a hook sent and saw fail,
\* no_id the thread whose call of _log_decision, the last one made, got a 2xx
\* answer without an id (0 if the last call got another answer)
RequestHistory(kept) == [kept |-> kept, failed |-> {}, no_id |-> 0]

NoWriteHistory == RequestHistory("none")

\* the id the remote store assigns next
NextId == 1 + Cardinality({d \in Ids : sent[d] # <<>>})

\* ------------------------------------------------------------ the serializer
\* bounds of the value universe: the longest mapping / sequence, and the depth of
\* recursion at which the interpreter raises RecursionError
MaxLen == 2
RecursionLimit == 4

\* A host value, as far as _serialize can tell values apart: kind is what the type
\* tests see, text the display string str(o), keys / items the keys and values of
\* a mapping or the elements of a collection.  An object that has a dict() method
\* ("model") has items <<what dict() returns, its __dict__>>; an object with a
\* __dict__ only ("object") has items <<its __dict__>>.  "ref" is a reference back
\* to the outermost container, which makes the graph cyclic.
Value(kind, text, keys, items) == [kind |-> kind, text |-> text, keys |-> keys, items |-> items]

VNone == Value("none", "None", <<>>, <<>>)
VStr(text) == Value("str", text, <<>>, <<>>)
VInt == Value("int", "1", <<>>, <<>>)
VBool == Value("bool", "True", <<>>, <<>>)
\* an object without __dict__ and without dict(): a datetime, bytes, a slotted object
VOther == Value("other", "2024-01-01 00:00:00", <<>>, <<>>)
\* a set: a collection that is neither list nor tuple, without __dict__
VSet == Value("set", "{1}", <<>>, <<VInt>>)
\* a mapping that is no dict and has no __dict__ (types.MappingProxyType)
VProxy == Value("mappingproxy", "mappingproxy({'a': 1})", <<"a">>, <<VInt>>)
VRef == Value("ref", "", <<>>, <<>>)

\* what a call that raised RecursionError leaves in place of a result
Raised == Value("RecursionError", "", <<>>, <<>>)

\* no call yet
NotCalled == Value("not called", "", <<>>, <<>>)

Leaves == {VNone, VStr("s"), VInt, VBool, VOther, VSet, VProxy, VRef}

SeqsUpTo(S, n) == UNION {[1..m -> S] : m \in 0..n}

KeysOf(n) == SubSeq(<<"a", "b", "c", "d">>, 1, n)

Dicts(S, n) == {Value("dict", "", KeysOf(Len(items)), items) : items \in SeqsUpTo(S, n)}
Lists(S, n) == {Value("list", "", <<>>, items) : items \in SeqsUpTo(S, n)}
Tuples(S, n) == {Value("tuple", "", <<>>, items) : items \in SeqsUpTo(S, n)}
Objects(S, n) == {Value("object", "<Task object>", <<>>, <<bag>>) : bag \in Dicts(S, n)}
Models(S) ==
  {Value("model", "ToolInput(a=1)", <<>>, <<export, bag>>) :
     export \in Dicts(S, 1), bag \in Dicts(S, 1)}

\* containers of leaves
Flat ==
  Dicts(Leaves, MaxLen) \cup Lists(Leaves, MaxLen) \cup Tuples(Leaves, MaxLen)
    \cup Objects(Leaves, MaxLen) \cup Models(Leaves)

\* containers of one container
Nested == Dicts(Flat, 1) \cup Lists(Flat, 1) \cup Objects(Flat, 1)

\* the values a direct call of _serialize is given
Values == (Leaves \ {VRef}) \cup Flat \cup Nested

\* hasattr(obj, "dict")
HasExport(o) == o.kind = "model"

\* obj.dict()
Export(o) == o.items[1]

\* hasattr(obj, "__dict__")
HasBag(o) == o.kind \in {"model", "object"}

\* obj.__dict__
Bag(o) == o.items[Len(o.items)]

\* the comprehension's result, unless serializing an element raised
Collect(kind, keys, results) ==
  IF \E i \in 1..Len(results) : results[i] = Raised
  THEN Raised
  ELSE Value(kind, "", keys, results)

\* ContextGraphObserver._serialize(obj), called at recursion depth depth while
\* serializing root
RECURSIVE observer_serialize(_, _, _)
observer_serialize(o, root, depth) ==
  IF depth > RecursionLimit THEN Raised
  ELSE CASE o.kind = "ref" -> observer_serialize(root, root, depth)
         [] o.kind = "none" -> VNone
         [] o.kind \in {"str", "int", "float", "bool"} -> o
         [] o.kind = "dict" ->
              Collect("dict", o.keys,
                      [i \in 1..Len(o.items) |-> observer_serialize(o.items[i], root, depth + 1)])
         [] o.kind \in {"list", "tuple"} ->
              Collect("list", <<>>,
                      [i \in 1..Len(o.items) |-> observer_serialize(o.items[i], root, depth + 1)])
         [] HasExport(o) -> observer_serialize(Export(o), root, depth + 1)
         [] HasBag(o) -> observer_serialize(Bag(o), root, depth + 1)
         [] OTHER -> VStr(o.text)

\* ContextGraphCallback._serialize(obj)
RECURSIVE callback_serialize(_, _, _)
callback_serialize(o, root, depth) ==
  IF depth > RecursionLimit THEN Raised
  ELSE CASE o.kind = "ref" -> callback_serialize(root, root, depth)
         [] o.kind = "none" -> VNone
         [] o.kind \in {"str", "int", "float", "bool"} -> o
         [] o.kind = "dict" ->
              Collect("dict", o.keys,
                      [i \in 1..Len(o.items) |-> callback_serialize(o.items[i], root, depth + 1)])
         [] o.kind \in {"list", "tuple"} ->
              Collect("list", <<>>,
                      [i \in 1..Len(o.items) |-> callback_serialize(o.items[i], root, depth + 1)])
         [] HasExport(o) -> callback_serialize(Export(o), root, depth + 1)
         [] HasBag(o) -> callback_serialize(Bag(o), root, depth + 1)
         [] OTHER -> VStr(o.text)

\* contextgraph_middleware._serialize(obj)
RECURSIVE middleware_serialize(_, _, _)
middleware_serialize(o, root, depth) ==
  IF depth > RecursionLimit THEN Raised
  ELSE CASE o.kind = "ref" -> middleware_serialize(root, root, depth)
         [] o.kind = "none" -> VNone
         [] o.kind \in {"str", "int", "float", "bool"} -> o
         [] o.kind = "dict" ->
              Collect("dict", o.keys,
                      [i \in 1..Len(o.items) |-> middleware_serialize(o.items[i], root, depth + 1)])
         [] o.kind \in {"list", "tuple"} ->
              Collect("list", <<>>,
                      [i \in 1..Len(o.items) |-> middleware_serialize(o.items[i], root, depth + 1)])
         [] HasExport(o) -> middleware_serialize(Export(o), root, depth + 1)
         [] HasBag(o) -> middleware_serialize(Bag(o), root, depth + 1)
         [] OTHER -> VStr(o.text)

Copies == {"observer", "callback", "middleware"}

\* ------------------------------------------------------------- construction
\* What a constructor is passed for api_key / agent_id / crew_id, and what
\* os.environ.get returns: Python's None (not passed, variable not set), the empty
\* string, or a value.
Missing == "<None>"
ArgValues == {Missing, "", "explicit"}
EnvValues == {Missing, "", "environ"}

\* bool(x) for an optional string
Truthy(x) == x \notin {Missing, ""}

\* x or y
Or(x, y) == IF Truthy(x) THEN x ELSE y

\* ------------------------------------------------- the creation request's context
\* A context is a mapping from keys to values; a value is kept as where it came
\* from: the hook's context argument, the instance metadata, the clock, the
\* adapter's tag, the reference argument.
ContextKeys == {"timestamp", "source", "reference_id", "run_id", "tool_name"}

EmptyMap == [k \in {} |-> ""]

\* the mappings with keys from S and value v
Mappings(S, v) == UNION {[D -> {v}] : D \in SUBSET S}

\* setdefault in place of the later entry winning: the first value of a key stays
MergeKeepsFirst(a, b) ==
  [k \in DOMAIN a \cup DOMAIN b |-> IF k \in DOMAIN a THEN a[k] ELSE b[k]]

\* {**a, **b}: on a clash the later entry wins
Merge(a, b) ==
  [k \in DOMAIN a \cup DOMAIN b |-> IF k \in DOMAIN b THEN b[k] ELSE a[k]]

\* datetime.utcnow().isoformat()
UtcNow == "utcnow"

\* {**context, **self.metadata, "timestamp": ..., "source": tag}
TaggedContext(context, tag) ==
  Merge(Merge(context, metadata),
        [k \in {"timestamp", "source"} |-> IF k = "timestamp" THEN UtcNow ELSE tag])

\* if reference: payload["context"][key] = reference
WithReference(context, key, reference) ==
  IF Truthy(reference) THEN Merge(context, [k \in {key} |-> reference]) ELSE context

\* payload["context"] in ContextGraphObserver._log_decision
observer_payload_context(context, reference_id) ==
  WithReference(TaggedContext(context, "crewai"), "reference_id", reference_id)

\* payload["context"] in ContextGraphCallback._log_decision
callback_payload_context(context, run_id) ==
  WithReference(TaggedContext(context, "langchain"), "run_id", run_id)

\* payload["context"] in ContextGraphClient.log_decision, which takes no reference
client_payload_context(context) == TaggedContext(context, "langchain-v1")

\* no creation request built yet
NotLogged == [built |-> FALSE, agent_id |-> Missing, status |-> "none", context |-> EmptyMap]

\* on / off for the two logging toggles an adapter has: both on, or one of them off
TogglePairs == {<<TRUE, TRUE>>, <<FALSE, TRUE>>, <<TRUE, FALSE>>}

\* the instance after construction, no hook fired yet
Constructed ==
  /\ adapter \in Adapters
  /\ constructed = "yes"
  /\ api_key = "explicit"
  /\ agent_id = "explicit"
  /\ auto_approve \in BOOLEAN
  /\ \E p \in TogglePairs :
       /\ log_tool_calls = IF adapter = "langchain" THEN FALSE ELSE p[1]
       /\ log_agent_thoughts = IF adapter = "crewai" THEN p[2] ELSE FALSE
       /\ log_chain_calls = IF adapter = "langchain" THEN p[1] ELSE FALSE
       /\ log_llm_calls = IF adapter = "langchain" THEN p[2] ELSE FALSE
       /\ log_model_calls = IF adapter = "langchain-v1" THEN p[2] ELSE FALSE
  /\ active_decisions = [k \in Keys |-> None]
  /\ crew_decision_id = None
  /\ sent = [d \in Ids \cup {None} |-> <<>>]
  /\ approval_failed = {}
  /\ frame = [t \in Threads |-> IdleFrame]

\* the host calls no pure function of the module by itself
NoDirectCalls ==
  /\ obj = VNone
  /\ returned = [c \in Copies |-> NotCalled]
  /\ metadata = EmptyMap
  /\ log_args = [context |-> EmptyMap, reference |-> Missing]
  /\ logged = NotLogged

Init ==
  Constructed /\ NoDirectCalls /\ last_hook = NoHistory /\ request_history = NoWriteHistory

\* the same, keeping the history of how hooks end
InitHistory ==
  /\ Constructed /\ NoDirectCalls /\ last_hook = HookEnd(0, IdleFrame)
  /\ request_history = NoWriteHistory

\* the same, keeping the history of the terminal requests that failed: those a
\* hook sent for an id it had taken from the table or had just created
InitWrites ==
  /\ Constructed /\ NoDirectCalls /\ last_hook = NoHistory
  /\ request_history = RequestHistory("writes")

\* the same, keeping the history of the creation requests answered without an id
InitAnswers ==
  /\ Constructed /\ NoDirectCalls /\ last_hook = NoHistory
  /\ request_history = RequestHistory("answers")

\* ------------------------------------------------------ the lifecycle client
\* except httpx.HTTPStatusError, in place of except Exception
LogDecisionCatchesStatusOnly(e) == e = "HTTPStatusError"

\* except Exception in _log_decision
LogDecisionCatches(e) == e \in CreateFailures \cup TransitionFailures \cup {"RecursionError"}

\* except Exception in _transition_decision
TransitionCatches(e) == e \in TransitionFailures

\* the exception _transition_decision lets out for outcome out, "none" if it returns
TransitionError(out) == IF out # "ok" /\ ~TransitionCatches(out) THEN out ELSE "none"

\* the exception raised inside _log_decision's try body, "none" if it runs through:
\* the creation request's, or the one the auto-approve call lets out
LogDecisionBodyError(auto, resp, aresp) ==
  IF resp \in CreateFailures THEN resp
  ELSE IF resp = "ok" /\ auto THEN TransitionError(aresp)
  ELSE "none"

\* _log_decision without its auto_approve branch
LogDecisionCallsUnapproved(auto, resp, aresp) ==
  IF resp = "ok" THEN <<"proposed">> ELSE <<>>

\* the calls _log_decision makes for the decision it creates: the creation and,
\* with auto_approve, the approval, which no other thread can separate for this id
\* (the id is known to this thread alone until the hook stores it)
LogDecisionCalls(auto, resp, aresp) ==
  IF resp = "ok"
  THEN <<"proposed">> \o (IF auto THEN <<"approved">> ELSE <<>>)
  ELSE <<>>

\* what _log_decision does, given self.auto_approve and the outcomes of its
\* requests: the calls it makes, whether the approval call it made failed, the
\* exception it lets out ("none" if it returns), whether it returns the id of
\* the decision it created (None otherwise), and whether the creation request was
\* answered 2xx without an id (decision.get("id") is None)
LogDecision(auto, resp, aresp) ==
  LET e == LogDecisionBodyError(auto, resp, aresp) IN
    [calls |-> LogDecisionCalls(auto, resp, aresp),
     approval_failed |-> resp = "ok" /\ auto /\ aresp # "ok",
     exc |-> IF e # "none" /\ ~LogDecisionCatches(e) THEN e ELSE "none",
     id |-> e = "none" /\ resp = "ok",
     no_id |-> resp = "no_id"]

\* _log_decision over every outcome of the creation and the approval request
LogDecisionResults ==
  [auto \in BOOLEAN |->
     {LogDecision(auto, resp, aresp) : resp \in CreateOutcomes, aresp \in TransitionOutcomes}]

\* what _transition_decision does, given the outcome of its request: whether the
\* call succeeded and the exception it lets out ("none" if it returns)
Transition(out) == [ok |-> out = "ok", exc |-> TransitionError(out)]

\* _transition_decision over every outcome of the request
TransitionResults == {Transition(out) : out \in TransitionOutcomes}

\* dict.pop(key, None): the value returned
PopValue(k) == active_decisions[k]

\* dict.clear() in place of dict.pop(key, None)
PopTableClears(k) == [j \in Keys |-> None]

\* dict.get(key) in place of dict.pop(key, None): the entry stays
PopTableKeeps(k) == active_decisions

\* dict.pop(key, None): the dict afterwards
PopTable(k) == [active_decisions EXCEPT ![k] = None]

\* dict.setdefault(key, decision_id) in place of the assignment: an occupied key
\* keeps its entry
PutTableKeepsOld(k, d) ==
  IF active_decisions[k] # None THEN active_decisions ELSE [active_decisions EXCEPT ![k] = d]

\* the assignment preceded by a sweep of the other entries
PutTableSweeps(k, d) == [j \in Keys |-> IF j = k THEN d ELSE None]

\* self._active_decisions[key] = decision_id: the dict afterwards
PutTable(k, d) == [active_decisions EXCEPT ![k] = d]

\* ------------------------------------------------------------ hook skeletons
\* the store without its test "if decision_id:": the absent value is stored too
AfterLogDecisionUnguarded(k, v, after, st) ==
  CASE after = "store" -> Frame("store", k, v, "none", NoExc)
    [] after = "store_crew" -> Frame("store_crew", NoKey, v, "none", NoExc)
    [] after = "transition" -> Frame("transition", NoKey, v, st, NoExc)
    [] after = "yield" -> Frame("yield", NoKey, v, "none", NoExc)
    [] OTHER -> IdleFrame

\* the frame of a thread once _log_decision has returned v to its hook, which
\* goes on to ("store") store a truthy v under k, ("store_crew") store v in the
\* crew slot, ("transition") transition a truthy v to st, ("yield") yield to the
\* host, or ("return") return
AfterLogDecision(k, v, after, st) ==
  CASE after = "store" /\ v # None -> Frame("store", k, v, "none", NoExc)
    [] after = "store_crew" -> Frame("store_crew", NoKey, v, "none", NoExc)
    [] after = "transition" /\ v # None -> Frame("transition", NoKey, v, st, NoExc)
    [] after = "yield" -> Frame("yield", NoKey, v, "none", NoExc)
    [] after = "store" /\ v = None -> AbsentFrame(k)
    [] OTHER -> IdleFrame

\* the hook's call of _log_decision, which does r
StartHookDoes(t, k, after, st, r) ==
  /\ r.calls # <<>> => NextId <= MaxDecisions
  /\ sent' = IF r.calls # <<>> THEN [sent EXCEPT ![NextId] = r.calls] ELSE sent
  /\ approval_failed' =
       IF r.approval_failed THEN approval_failed \cup {NextId} ELSE approval_failed
  /\ request_history' =
       IF request_history.kept = "answers"
       THEN [request_history EXCEPT !.no_id = IF r.no_id THEN t ELSE 0]
       ELSE request_history
  /\ Goto(t, IF r.exc # "none"
              THEN RaisedFrame(None, "_log_decision")
              ELSE AfterLogDecision(k, IF r.id THEN NextId ELSE None, after, st))

\* A hook that proposes: err is the exception the hook's own code raises while it
\* builds the context ("none" if it builds it); otherwise it calls _log_decision,
\* with every outcome of the creation request and of the approval request.
StartHook(t, k, err, after, st) ==
  /\ Outside(t)
  /\ IF err # "none"
     THEN /\ Goto(t, RaisedFrame(None, "hook"))
          /\ UNCHANGED <<sent, approval_failed, request_history>>
     ELSE \E r \in LogDecisionResults[auto_approve] : StartHookDoes(t, k, after, st, r)
  /\ UNCHANGED <<config, direct, active_decisions, crew_decision_id>>

\* A hook that takes: it pops key k; with a truthy id it builds the result
\* (err is the exception that raises, "none" if it does not) and goes on to
\* transition the id to st; with None it returns.  The frame of the transition
\* keeps k when the hook that ended last was this thread's start hook on k and got
\* absent.
EndHook(t, k, st, err) ==
  /\ Outside(t)
  /\ LET d == PopValue(k) IN
       /\ active_decisions' = PopTable(k)
       /\ Goto(t, IF d = None THEN IdleFrame
            ELSE IF err # "none" THEN RaisedFrame(d, "hook")
            ELSE Frame("transition", IF last_hook = HookEnd(t, AbsentFrame(k)) THEN k ELSE NoKey,
                       d, st, NoExc))
  /\ UNCHANGED <<config, direct, request_history, crew_decision_id, sent, approval_failed>>

\* the toggle tested after the pop in place of before it: an entry is taken
SkipAfterPop(t) ==
  /\ Outside(t)
  /\ \E k \in Keys : active_decisions' = PopTable(k)
  /\ Goto(t, IdleFrame)
  /\ UNCHANGED <<config, direct, request_history, crew_decision_id, sent, approval_failed>>

\* a hook whose logging toggle is off: return at once
Skip(t) ==
  /\ Outside(t)
  /\ Goto(t, IdleFrame)
  /\ UNCHANGED <<config, direct, request_history, active_decisions, crew_decision_id, sent,
                 approval_failed>>

\* self._active_decisions[key] = decision_id (the id is truthy), and the hook returns
StoreDecision(t) ==
  /\ frame[t].pc = "store"
  /\ active_decisions' = PutTable(frame[t].key, frame[t].decision_id)
  /\ Goto(t, IdleFrame)
  /\ UNCHANGED <<config, direct, request_history, crew_decision_id, sent, approval_failed>>

\* a loop around the request in place of the single call: the thread is still
\* about to send
AfterTransitionRetries(t) == frame[t]

\* the frame of thread t once _transition_decision has returned
AfterTransition(t) ==
  CASE frame[t].pc = "crew_transition" -> Frame("crew_clear", NoKey, None, "none", NoExc)
    [] frame[t].exc # NoExc -> RaisedFrame(None, frame[t].exc)
    [] OTHER -> IdleFrame

\* _transition_decision(decision_id, status, result): one call, logged under the id
\* it is made for, which does r
TransitionDecisionDoes(t, r) ==
  /\ frame[t].pc \in {"transition", "crew_transition"}
  /\ sent' = [sent EXCEPT ![frame[t].decision_id] = Append(@, frame[t].status)]
  /\ request_history' =
       IF request_history.kept = "writes" /\ ~r.ok /\ frame[t].pc = "transition"
       THEN [request_history EXCEPT !.failed = @ \cup {frame[t].decision_id}]
       ELSE request_history
  /\ Goto(t, IF r.exc # "none"
       THEN RaisedFrame(None, "_transition_decision")
       ELSE AfterTransition(t))
  /\ UNCHANGED <<config, direct, active_decisions, crew_decision_id, approval_failed>>

TransitionDecision(t) ==
  \E r \in TransitionResults : TransitionDecisionDoes(t, r)

\* ------------------------------------------------------------ CrewAI observer
TextKinds == {"str", "none", "missing"}

\* getattr(obj, name, "")[:500]: the attribute is a string, is None, or is missing
\* (the default "" is sliced)
TextSliceError(kind) == IF kind = "none" THEN "TypeError" ELSE "none"

\* getattr(task, "description", "")[:500], getattr(task, "expected_output", "")[:500]
TaskStartErrors ==
  {FirstError(<<TextSliceError(description), TextSliceError(expected_output)>>) :
     description \in TextKinds, expected_output \in TextKinds}

observer_on_task_start(t) ==
  /\ adapter = "crewai"
  /\ \E task \in Idents, err \in TaskStartErrors :
       StartHook(t, TaskKey(task), err, "store", "none")

observer_on_task_end(t) ==
  /\ adapter = "crewai"
  /\ \E task \in Idents : EndHook(t, TaskKey(task), "executed", "none")

observer_on_task_error(t) ==
  /\ adapter = "crewai"
  /\ \E task \in Idents : EndHook(t, TaskKey(task), "failed", "none")

observer_on_agent_action(t) ==
  /\ adapter = "crewai"
  /\ \E agent \in Idents, err \in SerializeErrors :
       StartHook(t, ActionKey(agent), err, "store", "none")

observer_on_agent_finish(t) ==
  /\ adapter = "crewai"
  /\ \E agent \in Idents, err \in SerializeErrors :
       EndHook(t, ActionKey(agent), "executed", err)

\* self._serialize(tool_input), then self._serialize(tool_output)[:2000]
ToolUseError(tool_input, tool_output) ==
  FirstError(<<SerializeError(tool_input), SerializeError(tool_output),
               IF SerializeError(tool_output) = "none"
               THEN SliceError(SerializeKind(tool_output)) ELSE "none">>)

ToolUseErrors ==
  {ToolUseError(tool_input, tool_output) : tool_input \in ValueKinds, tool_output \in ValueKinds}

observer_on_tool_use(t) ==
  /\ adapter = "crewai"
  /\ IF ~log_tool_calls THEN Skip(t)
     ELSE \E err \in ToolUseErrors :
            StartHook(t, NoKey, err, "transition", "executed")

observer_on_tool_error(t) ==
  /\ adapter = "crewai"
  /\ IF ~log_tool_calls THEN Skip(t)
     ELSE \E err \in SerializeErrors :
            StartHook(t, NoKey, err, "transition", "failed")

\* thought[:2000]
ThoughtErrors == {SliceError(thought) : thought \in {"str", "none"}}

observer_on_agent_thought(t) ==
  /\ adapter = "crewai"
  /\ IF ~log_agent_thoughts THEN Skip(t)
     ELSE \E err \in ThoughtErrors :
            StartHook(t, NoKey, err, "return", "none")

\* a.role for a in crew.agents; t.description[:200] if t.description else None
CrewStartError(agent_role, task_description) ==
  FirstError(<<IF agent_role = "missing" THEN "AttributeError" ELSE "none",
               IF task_description = "missing" THEN "AttributeError" ELSE "none">>)

CrewStartErrors ==
  {CrewStartError(agent_role, task_description) :
     agent_role \in {"str", "missing"}, task_description \in TextKinds}

observer_on_crew_start(t) ==
  /\ adapter = "crewai"
  /\ \E err \in CrewStartErrors :
       StartHook(t, NoKey, err, "store_crew", "none")

\* self._crew_decision_id = <what _log_decision returned>, None included
StoreCrewDecision(t) ==
  /\ frame[t].pc = "store_crew"
  /\ crew_decision_id' = frame[t].decision_id
  /\ Goto(t, IdleFrame)
  /\ UNCHANGED <<config, direct, request_history, active_decisions, sent, approval_failed>>

\* if self._crew_decision_id: the first read of the slot
CrewEndHook(t, st) ==
  /\ Outside(t)
  /\ Goto(t, IF crew_decision_id = None THEN IdleFrame
       ELSE Frame("crew_arg", NoKey, None, st, NoExc))
  /\ UNCHANGED <<config, direct, request_history, active_decisions, crew_decision_id, sent,
                 approval_failed>>

observer_on_crew_end(t) == adapter = "crewai" /\ CrewEndHook(t, "executed")

observer_on_crew_error(t) == adapter = "crewai" /\ CrewEndHook(t, "failed")

\* the second read of the slot, as the argument of _transition_decision
ReadCrewDecision(t) ==
  /\ frame[t].pc = "crew_arg"
  /\ Goto(t, Frame("crew_transition", NoKey, crew_decision_id, frame[t].status, NoExc))
  /\ UNCHANGED <<config, direct, request_history, active_decisions, crew_decision_id, sent,
                 approval_failed>>

\* self._crew_decision_id = None
ClearCrewDecision(t) ==
  /\ frame[t].pc = "crew_clear"
  /\ crew_decision_id' = None
  /\ Goto(t, IdleFrame)
  /\ UNCHANGED <<config, direct, request_history, active_decisions, sent, approval_failed>>

\* ------------------------------------------------- LangChain callback handler
\* action.tool_input, finish.return_values, inputs, outputs: what _serialize is given
callback_on_agent_action(t) ==
  /\ adapter = "langchain"
  /\ \E run_id \in Idents, err \in SerializeErrors :
       StartHook(t, RunKey(run_id), err, "store", "none")

callback_on_agent_finish(t) ==
  /\ adapter = "langchain"
  /\ \E run_id \in Idents, err \in SerializeErrors :
       EndHook(t, RunKey(run_id), "executed", err)

\* serialized.get(...): serialized is a dict, or None (a run without a serialized form)
SerializedKinds == {"dict", "none"}

SerializedGetError(serialized) == IF serialized = "none" THEN "AttributeError" ELSE "none"

\* serialized.get("name", "unknown_tool"), then self._serialize(inputs)
ToolStartErrors ==
  {FirstError(<<SerializedGetError(serialized), SerializeError(inputs)>>) :
     serialized \in SerializedKinds, inputs \in ValueKinds}

callback_on_tool_start(t) ==
  /\ adapter = "langchain"
  /\ \E run_id \in Idents, err \in ToolStartErrors :
       StartHook(t, RunKey(run_id), err, "store", "none")

callback_on_tool_end(t) ==
  /\ adapter = "langchain"
  /\ \E run_id \in Idents : EndHook(t, RunKey(run_id), "executed", "none")

callback_on_tool_error(t) ==
  /\ adapter = "langchain"
  /\ \E run_id \in Idents : EndHook(t, RunKey(run_id), "failed", "none")

\* serialized["id"], when "name" is looked up: a non-empty list, an empty one, or absent
\* (the default ["unknown"] is indexed)
SerializedIdKinds == {"list", "empty", "missing"}

\* serialized.get("name", serialized.get("id", ["unknown"])[-1]): the default is
\* evaluated whether or not "name" is present
ChainNameError(serialized, id) ==
  FirstError(<<SerializedGetError(serialized),
               IF id = "empty" THEN "IndexError" ELSE "none">>)

ChainStartErrors ==
  {FirstError(<<ChainNameError(serialized, id), SerializeError(inputs)>>) :
     serialized \in SerializedKinds, id \in SerializedIdKinds, inputs \in ValueKinds}

callback_on_chain_start(t) ==
  /\ adapter = "langchain"
  /\ IF ~log_chain_calls THEN Skip(t)
     ELSE \E run_id \in Idents, err \in ChainStartErrors :
            StartHook(t, RunKey(run_id), err, "store", "none")

callback_on_chain_end(t) ==
  /\ adapter = "langchain"
  /\ IF ~log_chain_calls THEN Skip(t)
     ELSE \E run_id \in Idents, err \in SerializeErrors :
            EndHook(t, RunKey(run_id), "executed", err)

callback_on_chain_error(t) ==
  /\ adapter = "langchain"
  /\ IF ~log_chain_calls THEN Skip(t)
     ELSE \E run_id \in Idents : EndHook(t, RunKey(run_id), "failed", "none")

\* serialized.get("name", "unknown_model")
LlmStartErrors == {SerializedGetError(serialized) : serialized \in SerializedKinds}

callback_on_llm_start(t) ==
  /\ adapter = "langchain"
  /\ IF ~log_llm_calls THEN Skip(t)
     ELSE \E run_id \in Idents, err \in LlmStartErrors :
            StartHook(t, RunKey(run_id), err, "store", "none")

callback_on_llm_end(t) ==
  /\ adapter = "langchain"
  /\ IF ~log_llm_calls THEN Skip(t)
     ELSE \E run_id \in Idents : EndHook(t, RunKey(run_id), "executed", "none")

callback_on_llm_error(t) ==
  /\ adapter = "langchain"
  /\ IF ~log_llm_calls THEN Skip(t)
     ELSE \E run_id \in Idents : EndHook(t, RunKey(run_id), "failed", "none")

\* -------------------------------------------------- LangChain v1 middleware
\* The model hooks exist only with log_model_calls, the tool wrapper only with
\* log_tool_calls: a hook that was not registered is never fired.
middleware_log_model_start(t) ==
  /\ adapter = "langchain-v1"
  /\ log_model_calls
  /\ StartHook(t, ModelKey, "none", "store", "none")

middleware_log_model_end(t) ==
  /\ adapter = "langchain-v1"
  /\ log_model_calls
  /\ EndHook(t, ModelKey, "executed", "none")

\* the wrapper up to its yield: _serialize(tool_input), then client.log_decision
middleware_log_tool_execution(t) ==
  /\ adapter = "langchain-v1"
  /\ log_tool_calls
  /\ \E err \in SerializeErrors : StartHook(t, NoKey, err, "yield", "none")

\* how the host resumes the generator: it sends the tool's result, or throws the
\* tool's exception, which is an Exception or (cancellation, interrupt, the
\* generator being closed) a BaseException that is none
ToolOutcomes == {"result", "Exception", "BaseException"}

\* the frame of the wrapper from its yield on, holding decision id d, for the
\* tool's outcome and the exception _serialize(result) raises ("none" if none)
ResumeFrame(d, outcome, err) ==
  CASE outcome = "BaseException" -> RaisedFrame(d, "tool")
    [] outcome = "Exception" /\ d = None -> RaisedFrame(None, "tool")
    [] outcome = "Exception" /\ d # None -> Frame("transition", NoKey, d, "failed", "tool")
    [] outcome = "result" /\ d = None -> IdleFrame
    [] outcome = "result" /\ d # None /\ err # "none" ->
         Frame("transition", NoKey, d, "failed", "hook")
    [] OTHER -> Frame("transition", NoKey, d, "executed", NoExc)

\* the wrapper from its yield to its next request, or to its end
middleware_log_tool_execution_resume(t) ==
  /\ frame[t].pc = "yield"
  /\ \E outcome \in ToolOutcomes, err \in SerializeErrors :
       Goto(t, ResumeFrame(frame[t].decision_id, outcome, err))
  /\ UNCHANGED <<config, direct, request_history, active_decisions, crew_decision_id, sent,
                 approval_failed>>

\* -------------------------------------------------------------- specification
Next ==
  \E t \in Threads :
    \/ observer_on_crew_start(t)
    \/ StoreCrewDecision(t)
    \/ observer_on_crew_end(t)
    \/ observer_on_crew_error(t)
    \/ ReadCrewDecision(t)
    \/ ClearCrewDecision(t)
    \/ observer_on_task_start(t)
    \/ observer_on_task_end(t)
    \/ observer_on_task_error(t)
    \/ observer_on_agent_action(t)
    \/ observer_on_agent_finish(t)
    \/ observer_on_tool_use(t)
    \/ observer_on_tool_error(t)
    \/ observer_on_agent_thought(t)
    \/ callback_on_agent_action(t)
    \/ callback_on_agent_finish(t)
    \/ callback_on_tool_start(t)
    \/ callback_on_tool_end(t)
    \/ callback_on_tool_error(t)
    \/ callback_on_chain_start(t)
    \/ callback_on_chain_end(t)
    \/ callback_on_chain_error(t)
    \/ callback_on_llm_start(t)
    \/ callback_on_llm_end(t)
    \/ callback_on_llm_error(t)
    \/ middleware_log_model_start(t)
    \/ middleware_log_model_end(t)
    \/ middleware_log_tool_execution(t)
    \/ middleware_log_tool_execution_resume(t)
    \/ StoreDecision(t)
    \/ TransitionDecision(t)

Spec == Init /\ [][Next]_vars

SpecHistory == InitHistory /\ [][Next]_vars

SpecWrites == InitWrites /\ [][Next]_vars

SpecAnswers == InitAnswers /\ [][Next]_vars

\* ------------------------------------------------- construction, step by step
\* nothing is constructed yet
InitConstruct ==
  /\ constructed = "no"
  /\ adapter = "none"
  /\ api_key = Missing
  /\ agent_id = Missing
  /\ auto_approve = FALSE
  /\ log_tool_calls = FALSE
  /\ log_agent_thoughts = FALSE
  /\ log_chain_calls = FALSE
  /\ log_llm_calls = FALSE
  /\ log_model_calls = FALSE
  /\ active_decisions = [k \in Keys |-> None]
  /\ crew_decision_id = None
  /\ sent = [d \in Ids \cup {None} |-> <<>>]
  /\ approval_failed = {}
  /\ frame = [t \in Threads |-> IdleFrame]
  /\ last_hook = NoHistory
  /\ request_history = NoWriteHistory
  /\ NoDirectCalls

\* api_key or os.environ.get("CG_API_KEY"), agent_id or os.environ.get("CG_AGENT_ID"),
\* then "if not ...: raise ValueError" for each; otherwise the instance of adapter a
\* exists, with the flags it was passed
ConstructValidated(a, key, env_key, id, env_id, auto, p) ==
  /\ constructed = "no"
  /\ adapter' = a
  /\ IF Truthy(Or(key, env_key)) /\ Truthy(Or(id, env_id))
     THEN /\ constructed' = "yes"
          /\ api_key' = Or(key, env_key)
          /\ agent_id' = Or(id, env_id)
          /\ auto_approve' = auto
          /\ log_tool_calls' = IF a = "langchain" THEN FALSE ELSE p[1]
          /\ log_agent_thoughts' = IF a = "crewai" THEN p[2] ELSE FALSE
          /\ log_chain_calls' = IF a = "langchain" THEN p[1] ELSE FALSE
          /\ log_llm_calls' = IF a = "langchain" THEN p[2] ELSE FALSE
          /\ log_model_calls' = IF a = "langchain-v1" THEN p[2] ELSE FALSE
     ELSE /\ constructed' = "ValueError"
          /\ UNCHANGED <<api_key, agent_id, auto_approve, log_tool_calls, log_agent_thoughts,
                         log_chain_calls, log_llm_calls, log_model_calls>>
  /\ UNCHANGED <<direct, request_history, active_decisions, crew_decision_id, sent, approval_failed,
                 frame, last_hook>>

\* the constructor's arguments and the environment it reads
ConstructInputs(a) ==
  \E key \in ArgValues, env_key \in EnvValues, id \in ArgValues, env_id \in EnvValues,
     auto \in BOOLEAN, p \in TogglePairs :
    ConstructValidated(a, key, env_key, id, env_id, auto, p)

\* ContextGraphObserver(api_key, crew_id, ...)
observer_init == ConstructInputs("crewai")

\* ContextGraphCallback(api_key, agent_id, ...)
callback_init == ConstructInputs("langchain")

\* contextgraph_middleware(api_key, agent_id, ...)
middleware_init == ConstructInputs("langchain-v1")

\* ContextGraphClient(api_key, agent_id, ...) called by the host itself: the
\* arguments are stored as they are
client_init ==
  /\ constructed = "no"
  /\ \E key \in ArgValues, id \in ArgValues, auto \in BOOLEAN :
       /\ api_key' = key
       /\ agent_id' = id
       /\ auto_approve' = auto
  /\ adapter' = "client"
  /\ constructed' = "yes"
  /\ UNCHANGED <<log_tool_calls, log_agent_thoughts, log_chain_calls, log_llm_calls,
                 log_model_calls>>
  /\ UNCHANGED <<direct, request_history, active_decisions, crew_decision_id, sent, approval_failed,
                 frame, last_hook>>

\* client.log_decision(...) called by the host on the client it constructed: the
\* request carries "Bearer {self.api_key}" and "agent_id": self.agent_id
client_log_decision(t) ==
  /\ constructed = "yes"
  /\ adapter = "client"
  /\ StartHook(t, NoKey, "none", "return", "none")

NextConstruct ==
  \/ observer_init
  \/ callback_init
  \/ middleware_init
  \/ client_init
  \/ \E t \in Threads : client_log_decision(t)

SpecConstruct == InitConstruct /\ [][NextConstruct]_vars

\* ------------------------------------------------ direct calls of _serialize
\* an instance of each adapter exists and the host holds a value
InitSerialize ==
  /\ Constructed
  /\ adapter = "crewai"
  /\ auto_approve = FALSE
  /\ log_tool_calls /\ log_agent_thoughts
  /\ last_hook = NoHistory
  /\ request_history = NoWriteHistory
  /\ obj \in Values
  /\ returned = [c \in Copies |-> NotCalled]
  /\ metadata = EmptyMap
  /\ log_args = [context |-> EmptyMap, reference |-> Missing]
  /\ logged = NotLogged

\* one copy of _serialize is called on the value
SerializeCall(c, result) ==
  /\ returned[c] = NotCalled
  /\ returned' = [returned EXCEPT ![c] = result]
  /\ UNCHANGED <<config, request_history, obj, metadata, log_args, logged, active_decisions,
                 crew_decision_id, sent, approval_failed, frame, last_hook>>

call_observer_serialize == SerializeCall("observer", observer_serialize(obj, obj, 0))

call_callback_serialize == SerializeCall("callback", callback_serialize(obj, obj, 0))

call_middleware_serialize == SerializeCall("middleware", middleware_serialize(obj, obj, 0))

NextSerialize ==
  \/ call_observer_serialize
  \/ call_callback_serialize
  \/ call_middleware_serialize

SpecSerialize == InitSerialize /\ [][NextSerialize]_vars

\* ---------------------------------------- direct calls of _log_decision: payload
\* the reference a hook passes: None, an empty string, or a task / agent / run id
References == {Missing, "", "7f3a"}

\* an instance with some metadata exists and a hook is about to call _log_decision
InitPayload ==
  /\ Constructed
  /\ auto_approve = FALSE
  /\ log_tool_calls = (adapter # "langchain")
  /\ log_agent_thoughts = (adapter = "crewai")
  /\ log_chain_calls = (adapter = "langchain")
  /\ last_hook = NoHistory
  /\ request_history = NoWriteHistory
  /\ obj = VNone
  /\ returned = [c \in Copies |-> NotCalled]
  /\ metadata \in Mappings(ContextKeys, "metadata")
  /\ log_args \in [context : Mappings(ContextKeys, "caller"), reference : References]
  /\ logged = NotLogged

\* os.environ read again when the request is built, in place of the attribute
PayloadAgentIdFromEnviron == "environ"

\* "agent_id": self.crew_id (observer), "agent_id": self.agent_id (callback, client)
PayloadAgentId == agent_id

\* the call builds the payload of its creation request for the context given
BuildPayload(a, context) ==
  /\ constructed = "yes"
  /\ adapter = a
  /\ ~logged.built
  /\ logged' = [built |-> TRUE, agent_id |-> PayloadAgentId, status |-> "proposed",
                context |-> context]
  /\ UNCHANGED <<config, request_history, obj, returned, metadata, log_args, active_decisions,
                 crew_decision_id, sent, approval_failed, frame, last_hook>>

observer_log_decision_payload ==
  BuildPayload("crewai", observer_payload_context(log_args.context, log_args.reference))

callback_log_decision_payload ==
  BuildPayload("langchain", callback_payload_context(log_args.context, log_args.reference))

\* the client, constructed by contextgraph_middleware or by the host, is given no
\* reference
client_log_decision_payload ==
  /\ log_args.reference = Missing
  /\ \E a \in {"langchain-v1", "client"} :
       BuildPayload(a, client_payload_context(log_args.context))

NextPayload ==
  \/ observer_log_decision_payload
  \/ callback_log_decision_payload
  \/ client_log_decision_payload

SpecPayload == InitPayload /\ [][NextPayload]_vars

\* construction followed by the creation request the instance builds
NextRequest ==
  \/ NextConstruct
  \/ NextPayload

SpecRequest == InitConstruct /\ [][NextRequest]_vars

\* --------------------------------------------------------------- properties
Terminal == {"executed", "failed"}

\* how many requests with a status in S were sent for decision id d
Count(d, S) == Cardinality({i \in 1..Len(sent[d]) : sent[d][i] \in S})

\* the ids the table holds
Stored == {active_decisions[k] : k \in Keys} \ {None}

\* the hook that ended last propagated an exception of its own code to the host
HookRaised == last_hook.frame.pc = "raised" /\ last_hook.frame.exc = "hook"

\* the hook that ended last had taken decision id d from the table and propagated
\* an exception of its own code before it issued a transition for d
RaisedHolding(d) == HookRaised /\ last_hook.frame.decision_id = d

\* C1: an end or error hook that takes a stored decision id issues the terminal
\* transition for it (it does not end having issued none), and an id has no
\* terminal transition while it is still stored, so that a second end/error hook,
\* which finds the key absent, adds none.
C1_OneTerminalPerTakenId ==
  /\ \A d \in Ids : ~RaisedHolding(d)
  /\ \A d \in Stored : Count(d, Terminal) = 0

\* the requests a decision id may have received so far: proposed, then approved
\* (with auto_approve only), then one terminal status
RequestOrders ==
  {<<>>, <<"proposed">>}
    \cup {<<"proposed", st>> : st \in Terminal}
    \cup (IF auto_approve
          THEN {<<"proposed", "approved">>}
                 \cup {<<"proposed", "approved", st>> : st \in Terminal}
          ELSE {})

\* C2: the requests sent for a decision id are, in order, one proposed, optionally
\* one approved (auto_approve only), one terminal status and nothing after it.
C2_RequestOrder == \A d \in Ids : sent[d] \in RequestOrders

\* C3: _log_decision and _transition_decision return for every outcome of the
\* remote call: no hook ends by propagating an exception raised in either, and
\* what _log_decision returns to its hook is None or the id of a decision whose
\* creation request was sent.
C3_ClientNeverRaises ==
  /\ last_hook.frame.exc \notin {"_log_decision", "_transition_decision"}
  /\ \A t \in Threads :
       frame[t].pc \in {"store", "store_crew", "yield", "transition"}
         => \/ frame[t].decision_id = None
            \/ /\ frame[t].decision_id \in Ids
               /\ sent[frame[t].decision_id] # <<>>
               /\ sent[frame[t].decision_id][1] = "proposed"

\* a start hook got None from _log_decision after a failed creation request and
\* returned, and the approval request of a stored decision failed
C3_Witness ==
  /\ last_hook.frame.status = "absent"
  /\ Stored \cap approval_failed # {}

\* C4: no hook propagates an exception to the host, whatever the host passes it
\* (the tool's own exception, which the middleware's wrapper re-raises, apart).
C4_NoHookRaises == ~HookRaised

\* C5: two units of work in flight at the same time are stored under different
\* keys; for the middleware, two model calls whose start hooks, on two threads, are
\* each about to store the id of their decision.
C5_ModelCallKeysUnique ==
  adapter = "langchain-v1" =>
    \A t1, t2 \in Threads :
      t1 # t2 /\ frame[t1].pc = "store" /\ frame[t2].pc = "store"
        => frame[t1].key # frame[t2].key

\* C6: with auto_approve, a decision that was created has received exactly one
\* approved request, right after its creation and so before _log_decision returned
\* its id and before any terminal transition; without auto_approve no approved
\* request is ever sent.
C6_AutoApprove ==
  \A d \in Ids :
    /\ sent[d] # <<>> /\ auto_approve =>
         /\ Len(sent[d]) >= 2
         /\ sent[d][1] = "proposed"
         /\ sent[d][2] = "approved"
         /\ Count(d, {"approved"}) = 1
    /\ ~auto_approve => Count(d, {"approved"}) = 0

\* with auto_approve a decision was created, approved, stored, taken and executed
C6_Witness ==
  /\ auto_approve
  /\ \E d \in Ids : sent[d] = <<"proposed", "approved", "executed">>

\* C7: a decision whose approval request failed still gets its terminal
\* transition from the end or error hook that takes it.
C7_TerminalAfterFailedApproval ==
  \A d \in approval_failed : ~RaisedHolding(d)

\* C8: after a start hook whose propose returned absent, the end or error hook of
\* the same unit of work sends no request; for the middleware, the log_model_end
\* of the model call whose log_model_start got absent, on the same thread.
C8_NoRequestAfterAbsentPropose ==
  adapter = "langchain-v1" =>
    \A t \in Threads : ~(frame[t].pc = "transition" /\ frame[t].key = ModelKey)

\* a hook of thread t holds decision id d as the id of the terminal transition it
\* is about to send
Holds(t, d) == frame[t].pc \in {"transition", "crew_transition"} /\ frame[t].decision_id = d

\* C9: of the end and error hooks that run concurrently on one entry, one observes
\* the stored id and issues its terminal transition: no two hooks hold the same id
\* for a transition, an id a hook took from the table is no longer stored, and the
\* hook that took an id does not end without having sent a terminal transition
\* for it.
C9_OneTakerIssuesTerminal ==
  /\ \A d \in Ids : \A t1, t2 \in Threads : Holds(t1, d) /\ Holds(t2, d) => t1 = t2
  /\ \A t \in Threads :
       frame[t].pc = "transition" => frame[t].decision_id \notin Stored
  /\ \A d \in Ids : RaisedHolding(d) => Count(d, Terminal) > 0

\* the keys whose table entry a step changes
ChangedKeys == {k \in Keys : active_decisions'[k] # active_decisions[k]}

\* thread t puts its decision id under its key k
IsPut(t, k) ==
  /\ frame[t].pc = "store"
  /\ frame[t].key = k
  /\ active_decisions'[k] = frame[t].decision_id

\* thread t takes the id under key k and, unless it ends there, holds it as the
\* id of the terminal transition it goes on to issue
IsTake(t, k) ==
  /\ Outside(t)
  /\ active_decisions[k] # None
  /\ active_decisions'[k] = None
  /\ frame'[t].pc = "transition" => frame'[t].decision_id = active_decisions[k]

\* thread t issues the transition its frame says, for the id its frame holds
IsTransition(t, d) ==
  /\ frame[t].pc \in {"transition", "crew_transition"}
  /\ frame[t].decision_id = d
  /\ sent'[d] = Append(sent[d], frame[t].status)

\* C10: a put or a take on one key leaves the entry of every other key unchanged,
\* and a transition is sent for the id the sending hook took from its own key (or
\* was returned by propose) and changes the requests of no other id.
C10_KeysDoNotInterfere ==
  [][/\ Cardinality(ChangedKeys) <= 1
     /\ \A k \in ChangedKeys : \E t \in Threads : IsPut(t, k) \/ IsTake(t, k)
     /\ \A d \in Ids :
          sent'[d] # sent[d] /\ sent[d] # <<>> =>
            /\ \E t \in Threads : IsTransition(t, d)
            /\ \A e \in Ids \ {d} : sent'[e] = sent[e]]_vars

\* two run ids in flight on the callback handler: the entry of one is stored
\* while the end hook of the other has taken its own id and is about to send
C10_Witness ==
  /\ adapter = "langchain"
  /\ \E t \in Threads, k \in Keys :
       /\ frame[t].pc = "transition"
       /\ active_decisions[k] \in Ids \ {frame[t].decision_id}

\* an end or error hook of thread t begins in this step, gets a real id from its
\* take and goes on to the transition (a proposing hook that goes on to a
\* transition has just sent its creation request)
TakesRealValue(t) ==
  /\ Outside(t)
  /\ frame'[t].pc = "transition"
  /\ sent' = sent

\* C11: take is destructive: an end or error hook whose take returns a real id
\* returns the id stored under its key and leaves that key absent, so that a
\* second take of the key, with no put in between, finds no entry and returns no
\* real value; and every step that empties a key is such a take (or the take of a
\* hook that ends in this step).
C11_TakeIsDestructive ==
  [][/\ \A t \in Threads :
          TakesRealValue(t) =>
            \E k \in Keys :
              /\ active_decisions[k] = frame'[t].decision_id
              /\ active_decisions[k] # None
              /\ active_decisions'[k] = None
     /\ \A k \in Keys :
          active_decisions[k] # None /\ active_decisions'[k] = None =>
            \E t \in Threads : IsTake(t, k)]_vars

\* on the callback handler a start hook stored id 1 under a run id, an end hook
\* took it (the key is absent again) and sent its terminal transition, and no
\* other decision exists
C11_Witness ==
  /\ adapter = "langchain"
  /\ Count(1, Terminal) = 1
  /\ sent[2] = <<>>
  /\ \A k \in Keys : active_decisions[k] = None
  /\ \A t \in Threads : Outside(t)

\* decision id d was created and is out of every hook's reach: it is in no table
\* entry, not in the crew slot and in no hook's locals
Orphaned(d) ==
  /\ sent[d] # <<>>
  /\ d \notin Stored
  /\ crew_decision_id # d
  /\ \A t \in Threads : frame[t].decision_id # d

\* thread t stores its decision id under key k in this step
Stores(t, k) ==
  /\ frame[t].pc = "store"
  /\ frame[t].key = k
  /\ frame'[t] # frame[t]

\* C12: a key has one entry: a start hook that stores its id under an occupied key
\* leaves the key mapped to the new id, sends no request in that step and leaves
\* the older id out of every hook's reach; and an id out of reach stays out of
\* reach and receives no further request, so that no later hook issues a terminal
\* transition for the older decision.
C12_OverwriteOrphansOlder ==
  [][/\ \A t \in Threads, k \in Keys :
          Stores(t, k) /\ active_decisions[k] # None =>
            /\ active_decisions'[k] = frame[t].decision_id
            /\ sent' = sent
            /\ \A d \in Ids : d = active_decisions[k] => Orphaned(d)'
     /\ \A d \in Ids :
          Orphaned(d) => Orphaned(d)' /\ sent'[d] = sent[d]]_vars

\* the middleware with its model hooks only: decision 1 was stored under "model",
\* overwritten by decision 2, and the next log_model_end took and executed
\* decision 2; decision 1 has its creation request alone
C12_Witness ==
  /\ adapter = "langchain-v1"
  /\ ~log_tool_calls
  /\ sent[1] = <<"proposed">>
  /\ Count(2, Terminal) = 1
  /\ active_decisions[ModelKey] = None
  /\ \A t \in Threads : Outside(t)

C14_MissingCredentialIsFatal ==
  /\ constructed = "yes" => Truthy(api_key) /\ Truthy(agent_id)
  /\ (\E d \in Ids : sent[d] # <<>>) => Truthy(api_key) /\ Truthy(agent_id)

\* the same for the three constructors that validate
C14_ValidatingConstructors ==
  constructed = "yes" /\ adapter \in Adapters => Truthy(api_key) /\ Truthy(agent_id)

\* thread t is about to call _transition_decision
Sending(t) == frame[t].pc \in {"transition", "crew_transition"}

\* thread t's call of _transition_decision sends its one request in this step:
\* the request is for the id and status of its frame, and afterwards the thread
\* is past the call and holds no id
SendsOnce(t) ==
  /\ Sending(t)
  /\ sent' = [sent EXCEPT ![frame[t].decision_id] = Append(@, frame[t].status)]
  /\ frame'[t].pc \notin {"transition", "crew_transition"}
  /\ frame'[t].decision_id = None
  /\ frame[t].pc = "transition" =>
       \A d \in Ids : d = frame[t].decision_id => Orphaned(d)'

\* a call of _log_decision sends its creation request for a new decision in this
\* step, followed by the approval with auto_approve, and no other request
CreatesOnce ==
  \E d \in Ids :
    /\ sent[d] = <<>>
    /\ sent' = [sent EXCEPT ![d] = <<"proposed">> \o (IF auto_approve THEN <<"approved">> ELSE <<>>)]

\* C15: no retry: a step that sends is one call of _transition_decision sending
\* one request, after which the thread has left the call and (for an id taken
\* from the table or just created) the id is out of every hook's reach, or one
\* call of _log_decision sending one creation request and at most one approval;
\* an id out of reach receives no further request, whatever the outcome of the
\* requests sent for it.
C15_NoRetry ==
  [][/\ sent' # sent => CreatesOnce \/ \E t \in Threads : SendsOnce(t)
     /\ \A d \in Ids : Orphaned(d) => sent'[d] = sent[d]]_vars

\* the callback handler: the approval of a decision failed; the decision was
\* stored, taken and given its terminal transition by a later hook, and the
\* approval was sent once
C15_Witness ==
  /\ adapter = "langchain"
  /\ \E d \in approval_failed :
       /\ Count(d, {"approved"}) = 1
       /\ Count(d, Terminal) = 1
       /\ Orphaned(d)

\* the copies of _serialize that were called on the value
Called == {c \in Copies : returned[c] # NotCalled}

\* C16: _serialize returns for every value, self-referential ones included: no
\* call ends in RecursionError.
C16_SerializerNeverRaises == \A c \in Called : returned[c] # Raised

\* null, scalars, and lists and dicts of JSON-safe values (dict keys are strings
\* throughout the universe)
RECURSIVE JsonSafe(_)
JsonSafe(v) ==
  \/ v.kind \in {"none", "str", "int", "float", "bool"}
  \/ /\ v.kind \in {"dict", "list"}
     /\ \A i \in 1..Len(v.items) : JsonSafe(v.items[i])

\* copy c of _serialize, called from outside
Serialize(c, v) ==
  CASE c = "observer" -> observer_serialize(v, v, 0)
    [] c = "callback" -> callback_serialize(v, v, 0)
    [] OTHER -> middleware_serialize(v, v, 0)

\* C17: _serialize returns a JSON-safe value unchanged, and for every value it
\* returns a result that it returns unchanged when given it again.
C17_SerializerIdempotent ==
  \A c \in Called :
    /\ JsonSafe(obj) => returned[c] = obj
    /\ returned[c] # Raised
    /\ Serialize(c, returned[c]) = returned[c]

\* the same for the values on which _serialize returns
C17_IdempotentWhereItReturns ==
  \A c \in Called :
    /\ JsonSafe(obj) => returned[c] = obj
    /\ returned[c] # Raised =>
         /\ JsonSafe(returned[c])
         /\ Serialize(c, returned[c]) = returned[c]

\* Rules 1-7, the first that matches winning, with the kinds that count as a
\* mapping (rule 3) and as a sequence (rule 4) as parameters.  On a value that
\* refers back to itself the rules give no result.
RECURSIVE Rules(_, _, _, _, _)
Rules(mappings, sequences, o, root, depth) ==
  IF depth > RecursionLimit THEN Raised
  ELSE CASE o.kind = "ref" -> Rules(mappings, sequences, root, root, depth)
         [] o.kind = "none" -> VNone
         [] o.kind \in {"str", "int", "float", "bool"} -> o
         [] o.kind \in mappings ->
              Collect("dict", o.keys,
                      [i \in 1..Len(o.items) |->
                         Rules(mappings, sequences, o.items[i], root, depth + 1)])
         [] o.kind \in sequences ->
              Collect("list", <<>>,
                      [i \in 1..Len(o.items) |->
                         Rules(mappings, sequences, o.items[i], root, depth + 1)])
         [] o.kind = "model" -> Rules(mappings, sequences, o.items[1], root, depth + 1)
         [] o.kind \in {"model", "object"} ->
              Rules(mappings, sequences, o.items[Len(o.items)], root, depth + 1)
         [] OTHER -> VStr(o.text)

\* the three copies agree on the value
CopiesAgree == \A c1, c2 \in Called : returned[c1] = returned[c2]

\* C18 as stated: every copy of _serialize returns what rules 1-7 give, every
\* mapping being a mapping for rule 3 and every collection, ordered or not, a
\* sequence for rule 4; and the three copies agree.
C18_MatchesRules ==
  /\ \A c \in Called :
       returned[c] = Rules({"dict", "mappingproxy"}, {"list", "tuple", "set"}, obj, obj, 0)
  /\ CopiesAgree

\* What the code does: every copy of _serialize returns what rules 1-7 give when
\* rule 3 applies to dicts and rule 4 to lists and tuples and to nothing else (a
\* set, or a mapping that is no dict, goes by rules 5-7); on a self-referential
\* value no copy returns; and the three copies agree.
MatchesRulesOnDictListTuple ==
  /\ \A c \in Called : returned[c] = Rules({"dict"}, {"list", "tuple"}, obj, obj, 0)
  /\ CopiesAgree

\* the three copies were called on a list of a set and a mapping proxy and each
\* returned the list of their display strings
SetAndProxyAsText ==
  /\ obj = Value("list", "", <<>>, <<VSet, VProxy>>)
  /\ \A c \in Copies :
       returned[c] = Value("list", "", <<>>, <<VStr(VSet.text), VStr(VProxy.text)>>)

\* the key under which adapter a writes the reference, and whether this call has one
ReferenceKey == IF adapter = "crewai" THEN "reference_id" ELSE "run_id"
ReferenceGiven == adapter # "langchain-v1" /\ Truthy(log_args.reference)

\* the keys the core sets itself
CoreKeys == {"timestamp", "source"} \cup (IF ReferenceGiven THEN {ReferenceKey} ELSE {})

\* C19: the context of a creation request has the core's timestamp and the tag of
\* the adapter, whatever the caller's context and the metadata hold under those
\* keys; the reference, when the hook passes one, is under its key whatever they
\* hold there; under every other key is the metadata's value if the metadata has
\* the key and the caller's value otherwise; and there is no other key.
C19_ContextTagged ==
  logged.built =>
    /\ DOMAIN logged.context = DOMAIN log_args.context \cup DOMAIN metadata \cup CoreKeys
    /\ logged.context["timestamp"] = UtcNow
    /\ logged.context["source"] = adapter
    /\ ReferenceGiven => logged.context[ReferenceKey] = log_args.reference
    /\ \A k \in DOMAIN logged.context \ CoreKeys :
         logged.context[k] = IF k \in DOMAIN metadata THEN "metadata" ELSE "caller"

\* the observer built a context from a caller's context and metadata that both hold
\* timestamp, source, reference_id and tool_name, with a reference passed
C19_Witness ==
  /\ logged.built
  /\ adapter = "crewai"
  /\ ReferenceGiven
  /\ {"timestamp", "source", "reference_id", "tool_name"} \subseteq DOMAIN log_args.context
  /\ {"timestamp", "source", "reference_id", "tool_name"} \subseteq DOMAIN metadata

\* decision id d has received an executed and a failed transition
MixedTerminals(d) == Count(d, {"executed"}) > 0 /\ Count(d, {"failed"}) > 0

\* C20: the terminal status is the one of the hook that consumed the entry,
\* executed from an end hook and failed from an error hook, so that no decision id
\* receives both an executed and a failed transition.
C20_OneTerminalStatus == \A d \in Ids : ~MixedTerminals(d)

\* the same for the callback handler and the middleware, which hold every id in
\* the table or in a hook's locals
OneTerminalStatusOffCrew == adapter # "crewai" => C20_OneTerminalStatus

\* the ids the instance holds: the table's values and the crew slot, when set
HeldIds == Stored \cup ({crew_decision_id} \ {None})

\* decision id d was returned by a creation request and has no terminal transition
Live(d) ==
  /\ d \in Ids
  /\ sent[d] # <<>>
  /\ sent[d][1] = "proposed"
  /\ Count(d, Terminal) = 0

\* C21: every id the instance holds, in the active decision table or in the crew
\* slot, is a non-null id that a creation request of this instance returned and
\* for which no terminal transition has been sent yet; and every request sent
\* under an id follows the creation request that returned that id, so that none
\* is sent under the null id.
C21_HeldIdsAreLive ==
  /\ \A d \in HeldIds : Live(d)
  /\ \A d \in Ids \cup {None} : sent[d] # <<>> => d # None /\ sent[d][1] = "proposed"

\* the same for the table alone, whose entries are taken before the request
TableIdsAreLive ==
  /\ \A d \in Stored : Live(d)
  /\ \A d \in Ids : sent[d] # <<>> => sent[d][1] = "proposed"

\* no transition is sent under the null id
NoTransitionUnderNone == sent[None] = <<>>

\* C22: a failed terminal write is dropped: the end or error hook removes the
\* table entry before it sends the transition, so that once the request has
\* failed the id is in no table entry and in no hook's hands, the call of
\* _transition_decision has returned to its hook without an exception, and the
\* failed request stays the only terminal request ever sent for that id.
C22_FailedWriteIsDropped ==
  /\ \A out \in TransitionFailures : Transition(out) = [ok |-> FALSE, exc |-> "none"]
  /\ \A d \in request_history.failed :
       /\ Orphaned(d)
       /\ Count(d, Terminal) = 1

\* the callback handler: the terminal request for a decision failed, and hooks
\* for the same run ids have since created, stored, taken and ended a second one
C22_Witness ==
  /\ adapter = "langchain"
  /\ 1 \in request_history.failed
  /\ Count(1, Terminal) = 1
  /\ Count(2, Terminal) = 1
  /\ 2 \notin request_history.failed
  /\ \A t \in Threads : Outside(t)

\* C23: the middleware's tool wrapper never alters the host's control flow: it
\* ends by returning the tool's result, or by re-raising the tool's exception
\* once the failed transition has been sent for the id it held; it never ends
\* with an exception of its own code, and never with the tool's exception while
\* it still holds an id that received no terminal transition.
C23_WrapperKeepsControlFlow ==
  (adapter = "langchain-v1" /\ last_hook.frame.pc = "raised") =>
    /\ last_hook.frame.exc = "tool"
    /\ last_hook.frame.decision_id = None

\* a failed request of the wrapper (the creation, the approval, the transition)
\* raises nothing into the host: the clients catch every Exception of a request
LoggingFailureKeepsControlFlow ==
  adapter = "langchain-v1" => last_hook.frame.exc \notin {"_log_decision", "_transition_decision"}

\* thread t runs, in this step, a hook of a category whose toggle is off
SwitchedOffHook(t) ==
  \/ /\ ~log_tool_calls
     /\ observer_on_tool_use(t) \/ observer_on_tool_error(t)
  \/ /\ ~log_agent_thoughts
     /\ observer_on_agent_thought(t)
  \/ /\ ~log_chain_calls
     /\ callback_on_chain_start(t) \/ callback_on_chain_end(t) \/ callback_on_chain_error(t)
  \/ /\ ~log_llm_calls
     /\ callback_on_llm_start(t) \/ callback_on_llm_end(t) \/ callback_on_llm_error(t)

\* C24: when the toggle of a category is off (log_tool_calls, log_agent_thoughts,
\* log_chain_calls, log_llm_calls), a hook of that category, start, end or error,
\* sends no request and leaves the table and the crew slot as they are, whatever
\* they contain, and returns in that one step; the toggles themselves stay as
\* they were configured.
C24_SwitchedOffHookDoesNothing ==
  [][/\ \A t \in Threads :
          SwitchedOffHook(t) =>
            /\ UNCHANGED <<active_decisions, crew_decision_id, sent, approval_failed>>
            /\ frame'[t] = IdleFrame
     /\ UNCHANGED <<log_tool_calls, log_agent_thoughts, log_chain_calls, log_llm_calls>>]_vars

\* the callback handler with chain logging off and LLM logging on holds an entry
\* of a run (stored by an agent, tool or LLM hook), the last hook returned having
\* done nothing, and no hook is running: a chain hook for that run finds the entry
C24_Witness ==
  /\ adapter = "langchain"
  /\ ~log_chain_calls /\ log_llm_calls
  /\ \E run_id \in Idents : active_decisions[RunKey(run_id)] # None
  /\ sent[2] # <<>>
  /\ last_hook = HookEnd(0, IdleFrame)
  /\ \A t \in Threads : Outside(t)

\* C25: the crew slot yields at most one terminal transition per crew run:
\* on_crew_end and on_crew_error send only when the slot holds an id, and for
\* that id, so that no id of the observer receives a second terminal transition
\* and no transition is sent under the null id of an empty slot.
C25_CrewSlotOneTerminal ==
  adapter = "crewai" =>
    /\ \A d \in Ids : Count(d, Terminal) <= 1
    /\ Count(None, Terminal) = 0

\* thread t takes, in this step, a step of a crew hook
CrewHookStep(t) ==
  \/ observer_on_crew_start(t) \/ StoreCrewDecision(t)
  \/ observer_on_crew_end(t) \/ observer_on_crew_error(t)
  \/ ReadCrewDecision(t) \/ ClearCrewDecision(t)
  \/ frame[t].pc = "crew_transition" /\ TransitionDecision(t)

\* the crew hooks never modify the active decision table
CrewHooksLeaveTable ==
  [][\A t \in Threads : CrewHookStep(t) => UNCHANGED active_decisions]_vars

\* thread t begins, in this step, a CrewAI tool hook whose toggle is on, which
\* ends with status st
ToolHookBegins(t, st) ==
  /\ log_tool_calls
  /\ IF st = "executed" THEN observer_on_tool_use(t) ELSE observer_on_tool_error(t)

\* what the first step of a tool hook that ends with st does: the table stays;
\* if a decision is created, it is created by one creation request (and the one
\* approval with auto_approve) and the hook goes on to send st for that id; if
\* none is created the hook has ended
ToolHookLifecycle(t, st) ==
  /\ UNCHANGED active_decisions
  /\ sent' # sent =>
       /\ CreatesOnce
       /\ \E d \in Ids :
            /\ sent[d] = <<>> /\ sent'[d] # <<>>
            /\ frame'[t] = Frame("transition", NoKey, d, st, NoExc)
  /\ sent' = sent => frame'[t] = IdleFrame

\* thread t runs, in this step, on_agent_thought with its toggle on
ThoughtHook(t) == log_agent_thoughts /\ observer_on_agent_thought(t)

\* what on_agent_thought does: the table stays, the hook ends, and the decision
\* it created, if any, is out of every hook's reach
ThoughtLifecycle(t) ==
  /\ UNCHANGED active_decisions
  /\ frame'[t] = IdleFrame
  /\ \A d \in Ids : sent[d] = <<>> /\ sent'[d] # <<>> => CreatesOnce /\ Orphaned(d)'

\* the hook that began in this step sent its creation request: it did not end
\* with an exception before the request
ReachedCreation == last_hook'.frame.pc # "raised"

\* C26: the CrewAI tool hooks are self-contained lifecycles: each on_tool_use
\* call sends one creation request, then (with auto_approve) one approved
\* transition, then one executed transition for the id just created, and
\* on_tool_error ends with one failed transition instead; when the creation fails
\* nothing further is sent; the table is unchanged; on_agent_thought sends one
\* creation request for a decision that never receives a terminal transition.
C26_ToolHooksSelfContained ==
  [][\A t \in Threads :
       /\ \A st \in Terminal :
            ToolHookBegins(t, st) => ReachedCreation /\ ToolHookLifecycle(t, st)
       /\ ThoughtHook(t) => ReachedCreation /\ ThoughtLifecycle(t)
       /\ (adapter = "crewai" /\ frame[t].pc = "transition" /\ frame'[t] # frame[t]) =>
            SendsOnce(t)
       /\ \A d \in Ids : Orphaned(d) => sent'[d] = sent[d]]_vars

\* the same for the calls that reach their creation request
SelfContainedFromCreation ==
  [][\A t \in Threads :
       /\ \A st \in Terminal :
            (ToolHookBegins(t, st) /\ ReachedCreation) => ToolHookLifecycle(t, st)
       /\ (ThoughtHook(t) /\ ReachedCreation) => ThoughtLifecycle(t)
       /\ (adapter = "crewai" /\ frame[t].pc = "transition" /\ frame'[t] # frame[t]) =>
            SendsOnce(t)
       /\ \A d \in Ids : Orphaned(d) => sent'[d] = sent[d]]_vars

\* thread t's call of _log_decision is answered, in this step, 2xx without an id
AnsweredWithoutId(t) == request_history.no_id # t /\ request_history'.no_id = t

\* C27: when the creation request is answered 2xx without an id (missing or
\* null), propose returns the absent value: the call sends no approved
\* transition even with auto_approve, the hook stores no table entry and goes on
\* to no transition, holding no id, so that the unit of work gets no terminal
\* transition; and no hook is ever about to store or to transition the absent
\* value.
C27_NoIdIsAbsent ==
  /\ [][\A t \in Threads :
          AnsweredWithoutId(t) =>
            /\ UNCHANGED <<sent, approval_failed, active_decisions, crew_decision_id>>
            /\ frame'[t].decision_id = None
            /\ frame'[t].pc \in {"idle", "store_crew", "yield"}]_vars
  /\ [](\A t \in Threads :
          frame[t].pc \in {"store", "transition"} => frame[t].decision_id # None)

\* the callback handler with auto_approve: a start hook's creation request was
\* answered without an id while the table held the entry of an earlier decision;
\* the hook has ended, the entry is the only one, and nothing was sent but the
\* earlier decision's creation and approval
C27_Witness ==
  /\ adapter = "langchain"
  /\ auto_approve
  /\ request_history.no_id = 1
  /\ \A t \in Threads : Outside(t)
  /\ Stored = {1}
  /\ sent[1] = <<"proposed", "approved">>
  /\ sent[2] = <<>>

\* C28: every creation request carries the status proposed and the agent_id the
\* instance was configured with at construction (the argument, or the
\* environment's value when no argument was given), and once the instance is
\* constructed no hook and no outcome of a request changes that agent_id.
C28_AgentIdIsConfigured ==
  /\ [](logged.built => logged.status = "proposed" /\ logged.agent_id = agent_id)
  /\ [][constructed = "yes" => agent_id' = agent_id]_vars

\* an observer configured from the environment (CG_CREW_ID) has built a creation
\* request
C28_Witness ==
  /\ adapter = "crewai"
  /\ constructed = "yes"
  /\ agent_id = "environ"
  /\ logged.built

\* no hook of the three adapters changes the agent_id, whatever the requests' outcomes
AgentIdIsFixed == [][agent_id' = agent_id]_vars

====
